---- MODULE Spec2Model ----
(***************************************************************************)
(* alert-az-do: reconciliation of Alertmanager notifications with Azure    *)
(* DevOps work items (pkg/notify).  One receiver processes notifications   *)
(* one after another against a remote work item store.                     *)
(*                                                                         *)
(* Strings are sequences of atoms: "Fingerprint:" + fp is the two-atom     *)
(* sequence <<"Fingerprint:", fp>>, strings.Join interleaves the separator *)
(* atom "; ", the empty string is <<>> and CONTAINS is a subsequence test. *)
(***************************************************************************)
EXTENDS Integers, Sequences, FiniteSets, TLC

\* ---------------------------------------------------------------- bounds
NumFingerprints == 2
MaxAlerts == 2
MaxSteps == 3

FingerprintNames == <<"f1", "f2", "f3", "f4">>
FingerprintIds == {FingerprintNames[i] : i \in 1..NumFingerprints}

\* --------------------------------------------------------------- strings
Str(a) == <<a>>

HasPrefix(s, p) == Len(s) >= Len(p) /\ SubSeq(s, 1, Len(p)) = p

TrimPrefix(s, p) == IF HasPrefix(s, p) THEN SubSeq(s, Len(p) + 1, Len(s)) ELSE s

Contains(s, t) == \E i \in 1..(Len(s) - Len(t) + 1) : SubSeq(s, i, i + Len(t) - 1) = t

RECURSIVE Join(_, _)
Join(elems, sep) ==
    IF Len(elems) = 0 THEN <<>>
    ELSE IF Len(elems) = 1 THEN elems[1]
    ELSE elems[1] \o sep \o Join(Tail(elems), sep)

TagSeparator == Str("; ")

RECURSIVE SortedSeq(_)
SortedSeq(S) ==
    IF S = {} THEN <<>>
    ELSE LET m == CHOOSE x \in S : \A y \in S : x <= y
         IN <<m>> \o SortedSeq(S \ {m})

RECURSIVE SeqsOf(_)
SeqsOf(S) ==
    IF S = {} THEN {<<>>}
    ELSE UNION {{<<x>> \o r : r \in SeqsOf(S \ {x})} : x \in S}

\* ----------------------------------------------------- alertmanager data
AlertFiring == "firing"
AlertResolved == "resolved"

AlertSet == [fingerprint : FingerprintIds, status : {AlertFiring, AlertResolved}]

FingerprintIndex(fp) == CHOOSE i \in 1..NumFingerprints : FingerprintNames[i] = fp

\* a notification carries at most MaxAlerts alerts with distinct fingerprints,
\* in the stable order in which Alertmanager lists the alerts of a group
Batches ==
    {b \in UNION {[1..n -> AlertSet] : n \in 0..MaxAlerts} :
        \A i, j \in 1..Len(b) :
            i < j => FingerprintIndex(b[i].fingerprint) < FingerprintIndex(b[j].fingerprint)}

Firing(alerts) == SelectSeq(alerts, LAMBDA a : a.status = AlertFiring)

Resolved(alerts) == SelectSeq(alerts, LAMBDA a : a.status = AlertResolved)

FingerprintTag(fp) == <<"Fingerprint:", fp>>

Fingerprints(alerts) == [i \in 1..Len(alerts) |-> FingerprintTag(alerts[i].fingerprint)]

FiringFingerprints(alerts) == Fingerprints(Firing(alerts))

ResolvedFingerprints(alerts) == Fingerprints(Resolved(alerts))

\* ------------------------------------------------------ work item fields
WorkItemFieldTitle == Str("System.Title")
WorkItemFieldDescription == Str("System.Description")
WorkItemFieldState == Str("System.State")
WorkItemFieldId == Str("System.Id")
WorkItemFieldTags == Str("System.Tags")
WorkItemFieldTeamProject == Str("System.TeamProject")
WorkItemFieldAssignedTo == Str("System.AssignedTo")
WorkItemFieldPriority == Str("Microsoft.VSTS.Common.Priority")

AllWorkItemFields ==
    {WorkItemFieldTitle, WorkItemFieldDescription, WorkItemFieldState,
     WorkItemFieldId, WorkItemFieldTags, WorkItemFieldTeamProject,
     WorkItemFieldAssignedTo, WorkItemFieldPriority}

FieldsPrefix == Str("/fields/")

FieldPath(f) == FieldsPrefix \o f

\* slip: the "/fields/" prefix is not accepted
ParseAzureWorkItemFieldBare(s) == IF s \in AllWorkItemFields THEN <<s>> ELSE <<>>

\* nil is the empty sequence, a hit is the one-element sequence of the field
ParseAzureWorkItemField(s) ==
    LET t == TrimPrefix(s, FieldsPrefix)
    IN IF t \in AllWorkItemFields THEN <<t>> ELSE <<>>

NoLoadErr == <<>>

OpAdd == "add"
OpReplace == "replace"

PatchOp(o, p, v) == [op |-> o, path |-> p, value |-> v]

\* ---------------------------------------------------- receiver configuration
StateNew == Str("New")
StateActive == Str("Active")
StateResolved == Str("Resolved")
StateRemoved == Str("Removed")

StateNames == {StateNew, StateActive, StateResolved, StateRemoved}

NoAutoResolve == [set |-> FALSE, state |-> <<>>]

\* the loader rejects auto_resolve with an empty state
AutoResolveChoices == {NoAutoResolve, [set |-> TRUE, state |-> StateResolved]}

\* *bool: unset, or set to a value
UpdateInCommentChoices == {[set |-> FALSE, val |-> FALSE], [set |-> TRUE, val |-> TRUE]}

\* the fields map, as a set of key/value template pairs
FieldMaps ==
    {{},
     {[key |-> WorkItemFieldAssignedTo, value |-> Str("owner")]},
     {[key |-> FieldPath(WorkItemFieldTags), value |-> Str("alert")]}}

ReceiverConfigs ==
    [project : {Str("TestProject")},
     issueType : {Str("Bug")},
     summary : {Str("Test Summary")},
     description : {Str("Test Description")},
     otherProjects : {<<>>},
     reopenState : {StateActive},
     priority : {<<>>, Str("2")},
     skipReopenState : {<<>>, StateRemoved, StateResolved},
     fields : FieldMaps,
     updateInComment : UpdateInCommentChoices,
     autoResolve : AutoResolveChoices]

MaxTitleLen == 128

\* summaries around the title limit
LongSummaryLen == 200

Letters == <<"a", "b", "c", "d", "e", "f", "g">>

AsciiText(n) == [i \in 1..n |-> Letters[(i % Len(Letters)) + 1]]

WideText(n) == [i \in 1..n |-> IF i % 2 = 0 THEN "e-acute" ELSE "u-umlaut"]

SummaryTexts ==
    {AsciiText(n) : n \in {1, MaxTitleLen - 1, MaxTitleLen, MaxTitleLen + 1, LongSummaryLen}}
        \cup {WideText(LongSummaryLen \div 2), Append(AsciiText(MaxTitleLen - 1), "e-acute")}

\* a fields map with two entries, one of them without a constant
TwoFields ==
    {[key |-> WorkItemFieldAssignedTo, value |-> Str("owner")],
     [key |-> Str("Custom.Team"), value |-> Str("ops")]}

\* receivers that differ in what the document builder reads
DocumentConfigs ==
    [project : {Str("TestProject")},
     issueType : {Str("Bug")},
     summary : SummaryTexts,
     description : {Str("Test Description")},
     otherProjects : {<<>>},
     reopenState : {StateActive},
     priority : {<<>>, Str("2")},
     skipReopenState : {<<>>},
     fields : {{}, TwoFields},
     updateInComment : {[set |-> FALSE, val |-> FALSE]},
     autoResolve : {[set |-> TRUE, state |-> StateResolved]}]

\* ---------------------------------------------- pkg/config: loading a file
AuthFields == {"tenant_id", "client_id", "client_secret", "subscription_id", "personal_access_token"}

RequiredFields == {"organization", "project", "issue_type", "summary", "reopen_state", "reopen_duration"}

OptionalFields == {"priority", "description", "skip_reopen_state"}

ConfigFields == AuthFields \cup RequiredFields \cup OptionalFields

\* the order in which the loader checks the required fields of a receiver
RequiredOrder == <<"organization", "project", "issue_type", "summary", "reopen_state", "reopen_duration">>

OwnValue(f) == <<f, " of the receiver">>

DefaultValue(f) == <<f, " of the defaults">>

hasServicePrincipal(rc) ==
    rc.f["tenant_id"] # <<>> /\ rc.f["client_id"] # <<>> /\ rc.f["client_secret"] # <<>>

hasManagedIdentity(rc) == rc.f["client_id"] # <<>> /\ rc.f["subscription_id"] # <<>>

hasPAT(rc) == rc.f["personal_access_token"] # <<>>

authMethodCount(rc) ==
    (IF hasServicePrincipal(rc) THEN 1 ELSE 0)
      + (IF hasManagedIdentity(rc) /\ ~hasServicePrincipal(rc) THEN 1 ELSE 0)
      + (IF hasPAT(rc) THEN 1 ELSE 0)

\* rc.X = defaults.X for every field X of fs that rc leaves empty
FillEmpty(rc, d, fs) ==
    [rc EXCEPT !.f = [x \in ConfigFields |-> IF x \in fs /\ rc.f[x] = <<>> THEN d.f[x] ELSE rc.f[x]]]

\* the authentication fields of a receiver after the defaults were consulted
InheritAuth(rc, d) ==
    IF hasPAT(rc) \/ hasServicePrincipal(rc) \/ hasManagedIdentity(rc) THEN rc
    ELSE IF hasPAT(d) THEN [rc EXCEPT !.f["personal_access_token"] = d.f["personal_access_token"]]
    ELSE IF hasServicePrincipal(d) THEN FillEmpty(rc, d, {"tenant_id", "client_id", "client_secret"})
    ELSE IF hasManagedIdentity(d) THEN FillEmpty(rc, d, {"client_id", "subscription_id"})
    ELSE rc

AuthMissing(rc, d) ==
    /\ ~(hasPAT(rc) \/ hasServicePrincipal(rc) \/ hasManagedIdentity(rc))
    /\ ~(hasPAT(d) \/ hasServicePrincipal(d) \/ hasManagedIdentity(d))

\* required fields, other than the organization, set neither in the receiver nor in the defaults
MissingRequired(rc, d) ==
    SelectSeq(Tail(RequiredOrder), LAMBDA x : rc.f[x] = <<>> /\ d.f[x] = <<>>)

\* one turn of the loop over c.Receivers: [rc, err]
LoadReceiver(rc, d) ==
    LET merged == FillEmpty(InheritAuth(rc, d), d, RequiredFields \cup OptionalFields)
        out == [merged EXCEPT
                   !.autoResolve = IF ~rc.autoResolve.set THEN d.autoResolve ELSE rc.autoResolve,
                   !.otherProjects = rc.otherProjects \o d.otherProjects,
                   !.updateInComment = IF ~rc.updateInComment.set THEN d.updateInComment
                                       ELSE rc.updateInComment]
        fail(msg) == [rc |-> rc, err |-> msg]
    IN IF rc.name = <<>> THEN fail(<<"missing name for receiver">>)
       ELSE IF rc.f["organization"] = <<>> /\ d.f["organization"] = <<>>
            THEN fail(<<"missing ", "organization", " in receiver">>)
       ELSE IF authMethodCount(rc) > 1 THEN fail(<<"bad auth config in receiver">>)
       ELSE IF AuthMissing(rc, d) THEN fail(<<"missing authentication in receiver">>)
       ELSE IF Len(MissingRequired(rc, d)) > 0
            THEN fail(<<"missing ", Head(MissingRequired(rc, d)), " in receiver">>)
       ELSE IF rc.autoResolve.set /\ rc.autoResolve.state = <<>>
            THEN fail(<<"bad config in receiver, 'auto_resolve' was defined with empty 'state' field">>)
       ELSE [rc |-> out, err |-> NoLoadErr]

\* Config.UnmarshalYAML: [receivers, err]
UnmarshalYAML(c) ==
    LET turns == [i \in 1..Len(c.receivers) |-> LoadReceiver(c.receivers[i], c.defaults)]
        failed == {i \in 1..Len(turns) : turns[i].err # NoLoadErr}
        fail(msg) == [receivers |-> <<>>, err |-> msg]
    IN IF authMethodCount(c.defaults) > 1 THEN fail(<<"bad auth config in defaults section">>)
       ELSE IF c.defaults.autoResolve.set /\ c.defaults.autoResolve.state = <<>>
            THEN fail(<<"bad config in defaults section: state cannot be empty">>)
       ELSE IF failed # {} THEN fail(turns[CHOOSE i \in failed : \A j \in failed : i <= j].err)
       ELSE IF Len(c.receivers) = 0 THEN fail(<<"no receivers defined">>)
       ELSE IF c.template = <<>> THEN fail(<<"missing template file">>)
       ELSE [receivers |-> [i \in 1..Len(turns) |-> turns[i].rc], err |-> NoLoadErr]

\* ------------------------------------------------------------ templates
RenderPoints == {"project", "issueType", "summary", "description", "priority", "field"}

NoErr == <<>>

Wrap(err, msg) == <<msg, ": ">> \o err

\* a template without actions renders to its own text; `failing` names the
\* template whose evaluation fails for this notification
Execute(point, text, failing) ==
    IF failing = point
    THEN [val |-> <<>>, err |-> Str("template: execute")]
    ELSE [val |-> text, err |-> NoErr]

\* slip: the error a template returns is dropped
RenderFailedIgnored(r) == FALSE

\* the `if err != nil` that follows every tmpl.Execute
RenderFailed(r) == r.err # NoErr

\* ------------------------------------------------------- remote store
NoItem == [id |-> 0, project |-> <<>>, state |-> <<>>, tags |-> <<>>]

NoWiql == [project |-> <<>>, tags |-> <<>>]

Call(name, id, project, type, doc, wiql, ok, was) ==
    [name |-> name, id |-> id, project |-> project, type |-> type, doc |-> doc,
     wiql |-> wiql, ok |-> ok, was |-> was]

RECURSIVE ApplyDocument(_, _)
ApplyDocument(item, doc) ==
    IF Len(doc) = 0 THEN item
    ELSE LET o == Head(doc)
             next == IF o.path = FieldPath(WorkItemFieldTags) THEN [item EXCEPT !.tags = o.value]
                     ELSE IF o.path = FieldPath(WorkItemFieldState) THEN [item EXCEPT !.state = o.value]
                     ELSE item
         IN ApplyDocument(next, Tail(doc))

\* the remote assigns the next id, the project of the call and the initial state
RemoteCreateWorkItem(st, project, doc) ==
    LET base == ApplyDocument([NoItem EXCEPT !.id = Len(st) + 1], doc)
    IN Append(st, [base EXCEPT !.project = project, !.state = StateNew])

RemoteUpdateWorkItem(st, id, doc) == [st EXCEPT ![id] = ApplyDocument(st[id], doc)]

\* [System.TeamProject] = '<project>' AND ([System.Tags] CONTAINS '<t1>' OR ...)
WiqlMatches(st, wiql) ==
    {i \in 1..Len(st) :
        /\ st[i].project = wiql.project
        /\ \E k \in 1..Len(wiql.tags) : Contains(st[i].tags, wiql.tags[k])}

\* the query has no ORDER BY: `first` is the id the remote happens to list first
RemoteQueryByWiql(st, wiql, first) ==
    LET m == WiqlMatches(st, wiql)
    IN IF first \in m THEN <<first>> \o SortedSeq(m \ {first}) ELSE SortedSeq(m)

\* ------------------------------------------------- pkg/notify: documents
\* characters that take two bytes in UTF-8; every other atom of a string
\* stands for a single byte
TwoByteChars == {"e-acute", "u-umlaut"}

Utf8Len(ch) == IF ch \in TwoByteChars THEN 2 ELSE 1

\* what remains of a character whose encoding is cut after its first byte
LeadByte == "lead-byte"

\* bytes taken by the first k characters of s
BytesIn(s, k) == k + Cardinality({i \in 1..k : Utf8Len(s[i]) = 2})

\* len(s) of a Go string: its length in bytes
ByteLen(s) == BytesIn(s, Len(s))

\* the number of leading characters of s that fit whole in n bytes, between lo and hi
RECURSIVE WholeChars(_, _, _, _)
WholeChars(s, n, lo, hi) ==
    IF lo >= hi THEN lo
    ELSE LET mid == (lo + hi + 1) \div 2
         IN IF BytesIn(s, mid) <= n THEN WholeChars(s, n, mid, hi) ELSE WholeChars(s, n, lo, mid - 1)

\* s[:n] of a Go string: the first n bytes, which may end inside a character
ByteSlice(s, n) ==
    LET whole == WholeChars(s, n, 0, Len(s))
    IN SubSeq(s, 1, whole) \o (IF whole < Len(s) /\ BytesIn(s, whole) < n THEN <<LeadByte>> ELSE <<>>)

TruncateTitle(title) == IF ByteLen(title) > MaxTitleLen THEN ByteSlice(title, MaxTitleLen) ELSE title

\* the orders in which `range r.conf.Fields` may visit the map
FieldOrders(c) == SeqsOf(c.fields)

FieldPathOfKey(key) ==
    LET path == ParseAzureWorkItemField(key)
    IN IF path # <<>> THEN FieldPath(path[1]) ELSE FieldsPrefix \o key

\* slip: a new work item is tagged with its first firing alert only
CreateTagsValueFirst(data) ==
    IF Len(Firing(data.alerts)) = 0 THEN <<>>
    ELSE FingerprintTag(Firing(data.alerts)[1].fingerprint)

\* slip: tags a new work item with every alert of the batch
CreateTagsValueAll(data) == Join(Fingerprints(data.alerts), TagSeparator)

\* value of the Tags operation of a new work item
CreateTagsValue(data) == Join(FiringFingerprints(data.alerts), TagSeparator)

\* slip: an update re-tags with the firing alerts only
UpdateTagsValueFiring(data) == Join(FiringFingerprints(data.alerts), TagSeparator)

\* value of the Tags operation of an update
UpdateTagsValue(data) == Join(Fingerprints(data.alerts), TagSeparator)

\* slip: the Tags operation is added for an empty batch too
FingerprintOpsAnyBatch(data, addFingerprint) ==
    IF addFingerprint
    THEN <<PatchOp(OpAdd, FieldPath(WorkItemFieldTags), CreateTagsValue(data))>>
    ELSE <<>>

FingerprintOps(data, addFingerprint) ==
    IF addFingerprint /\ Len(data.alerts) > 0
    THEN <<PatchOp(OpAdd, FieldPath(WorkItemFieldTags), CreateTagsValue(data))>>
    ELSE <<>>

CustomFieldOps(order) ==
    [i \in 1..Len(order) |-> PatchOp(OpAdd, FieldPathOfKey(order[i].key), order[i].value)]

\* returns [doc, err]; every render failure aborts the build
generateWorkItemDocument(c, data, addFingerprint, failing, order) ==
    LET title == Execute("summary", c.summary, failing)
        description == Execute("description", c.description, failing)
        priorityValue == Execute("priority", c.priority, failing)
        doc1 == <<PatchOp(OpAdd, FieldPath(WorkItemFieldTitle), TruncateTitle(title.val)),
                  PatchOp(OpAdd, FieldPath(WorkItemFieldDescription), description.val)>>
        doc2 == doc1 \o FingerprintOps(data, addFingerprint)
        doc3 == IF c.priority # <<>>
                THEN Append(doc2, PatchOp(OpAdd, FieldPath(WorkItemFieldPriority), priorityValue.val))
                ELSE doc2
    IN IF RenderFailed(title) THEN [doc |-> <<>>, err |-> Wrap(title.err, "render title")]
       ELSE IF RenderFailed(description)
            THEN [doc |-> <<>>, err |-> Wrap(description.err, "render description")]
       ELSE IF c.priority # <<>> /\ RenderFailed(priorityValue)
            THEN [doc |-> <<>>, err |-> Wrap(priorityValue.err, "render priority")]
       ELSE IF Len(order) > 0 /\ RenderFailed(Execute("field", order[1].value, failing))
            THEN [doc |-> <<>>, err |-> Wrap(Str("template: execute"), "render field")]
       ELSE [doc |-> doc3 \o CustomFieldOps(order), err |-> NoErr]

\* ---------------------------------------------- pkg/notify: reconciliation
RemoteCalls == {"query", "get", "create", "update", "comment"}

Outcome(st, calls, err) == [store |-> st, calls |-> calls, err |-> err]

\* slip: the query names the firing alerts only
BuildWiqlFiring(data, project) == [project |-> project, tags |-> FiringFingerprints(data.alerts)]

BuildWiql(data, project) == [project |-> project, tags |-> Fingerprints(data.alerts)]

\* what findWorkItem does with the list of ids the query returned: the index
\* of the reference it goes on to fetch, 0 when it reports "no work item"
SelectWorkItemRef(refs) == IF Len(refs) = 0 THEN 0 ELSE 1

\* slip: the error of the query is dropped
QueryFailedIgnored(remoteFail) == FALSE

\* the `if err != nil` that follows QueryByWiql
QueryFailed(remoteFail) == remoteFail = "query"

\* returns [item, calls, err]
findWorkItem(st, data, project, remoteFail, first) ==
    IF Len(data.alerts) = 0
    THEN [item |-> NoItem, calls |-> <<>>, err |-> Str("no alerts in data")]
    ELSE LET wiql == BuildWiql(data, project)
             refs == IF remoteFail = "query" THEN <<>> ELSE RemoteQueryByWiql(st, wiql, first)
             sel == SelectWorkItemRef(refs)
             q == Call("query", 0, <<>>, <<>>, <<>>, wiql, remoteFail # "query", NoItem)
             g(id, ok) == Call("get", id, <<>>, <<>>, <<>>, NoWiql, ok, st[id])
         IN IF QueryFailed(remoteFail)
            THEN [item |-> NoItem, calls |-> <<q>>, err |-> Wrap(Str("remote"), "query work items")]
            ELSE IF sel = 0
            THEN [item |-> NoItem, calls |-> <<q>>, err |-> NoErr]
            ELSE IF remoteFail = "get"
            THEN [item |-> NoItem, calls |-> <<q, g(refs[sel], FALSE)>>, err |-> Str("remote")]
            ELSE [item |-> st[refs[sel]], calls |-> <<q, g(refs[sel], TRUE)>>, err |-> NoErr]

\* slip: a failed comment is not reported
addCommentUnreported(st, workItem, remoteFail) ==
    Outcome(st, <<Call("comment", workItem.id, workItem.project, <<>>, <<>>, NoWiql,
                       remoteFail # "comment", st[workItem.id])>>, NoErr)

addComment(st, workItem, remoteFail) ==
    LET c(ok) == Call("comment", workItem.id, workItem.project, <<>>, <<>>, NoWiql, ok, st[workItem.id])
    IN IF remoteFail = "comment"
       THEN Outcome(st, <<c(FALSE)>>, Wrap(Str("remote"), "create work item comment"))
       ELSE Outcome(st, <<c(TRUE)>>, NoErr)

\* slip: the skip check is missing
SkipReopenNever(c, workItemRef) == FALSE

\* slip: the skip check reads the auto-resolve state instead of skipReopenState
SkipReopenWrongField(c, workItemRef) == workItemRef.state = c.autoResolve.state

SkipReopen(c, workItemRef) == workItemRef.state = c.skipReopenState

\* slip: reopens every item that is not in reopenState
NeedsReopenNotOpen(c, workItemRef) == workItemRef.state # c.reopenState

\* slip: the reopen check compares against reopenState
NeedsReopenWrongState(c, workItemRef) == c.autoResolve.set /\ workItemRef.state = c.reopenState

NeedsReopen(c, workItemRef) == c.autoResolve.set /\ workItemRef.state = c.autoResolve.state

\* slip: the update document carries no Tags operation
UpdateFingerprintOpsMissing(data) == <<>>

UpdateFingerprintOps(data) ==
    IF Len(data.alerts) > 0
    THEN <<PatchOp(OpReplace, FieldPath(WorkItemFieldTags), UpdateTagsValue(data))>>
    ELSE <<>>

\* slip: every update moves the item to reopenState
ReopenOpsAlways(c, workItemRef) ==
    <<PatchOp(OpReplace, FieldPath(WorkItemFieldState), c.reopenState)>>

ReopenOps(c, workItemRef) ==
    IF NeedsReopen(c, workItemRef)
    THEN <<PatchOp(OpReplace, FieldPath(WorkItemFieldState), c.reopenState)>>
    ELSE <<>>

\* slip: the *bool is tested for nil only
CommentWantedWhenSet(c) == c.updateInComment.set

CommentWanted(c) == c.updateInComment.set /\ c.updateInComment.val

\* slip: the update is addressed to the first work item of the project
UpdateTargetFirst(workItemRef) == 1

\* the `Id: workItemRef.Id` of the update payload
UpdateTarget(workItemRef) == workItemRef.id

updateWorkItem(st, c, data, project, workItemRef, failing, remoteFail, order) ==
    IF SkipReopen(c, workItemRef) THEN Outcome(st, <<>>, NoErr)
    ELSE LET gen == generateWorkItemDocument(c, data, FALSE, failing, order)
             document == gen.doc \o UpdateFingerprintOps(data) \o ReopenOps(c, workItemRef)
             id == UpdateTarget(workItemRef)
             u(ok) == Call("update", id, project, <<>>, document, NoWiql, ok, st[id])
             updated == RemoteUpdateWorkItem(st, id, document)
             com == addComment(updated, workItemRef, remoteFail)
         IN IF gen.err # NoErr THEN Outcome(st, <<>>, Wrap(gen.err, "generate work item document"))
            ELSE IF remoteFail = "update"
            THEN Outcome(st, <<u(FALSE)>>, Wrap(Str("remote"), "update work item"))
            ELSE IF CommentWanted(c)
            THEN Outcome(com.store, <<u(TRUE)>> \o com.calls,
                         IF com.err # NoErr THEN Wrap(com.err, "add comment to work item") ELSE NoErr)
            ELSE Outcome(updated, <<u(TRUE)>>, NoErr)

\* variant: a create made conditional on the store, skipped when a work item
\* already carries one of the batch's fingerprints
createWorkItemIfAbsent(st, c, data, project, failing, remoteFail, order) ==
    LET workItemType == Execute("issueType", c.issueType, failing)
        gen == generateWorkItemDocument(c, data, TRUE, failing, order)
        cr(ok) == Call("create", 0, project, workItemType.val, gen.doc, NoWiql, ok, NoItem)
    IN IF WiqlMatches(st, BuildWiql(data, project)) # {} THEN Outcome(st, <<>>, NoErr)
       ELSE Outcome(RemoteCreateWorkItem(st, project, gen.doc), <<cr(TRUE)>>, NoErr)

createWorkItem(st, c, data, project, failing, remoteFail, order) ==
    LET workItemType == Execute("issueType", c.issueType, failing)
        gen == generateWorkItemDocument(c, data, TRUE, failing, order)
        cr(ok) == Call("create", 0, project, workItemType.val, gen.doc, NoWiql, ok, NoItem)
    IN IF RenderFailed(workItemType) THEN Outcome(st, <<>>, Wrap(workItemType.err, "render work item type"))
       ELSE IF gen.err # NoErr THEN Outcome(st, <<>>, Wrap(gen.err, "generate work item document"))
       ELSE IF remoteFail = "create"
       THEN Outcome(st, <<cr(FALSE)>>, Wrap(Str("remote"), "create work item"))
       ELSE Outcome(RemoteCreateWorkItem(st, project, gen.doc), <<cr(TRUE)>>, NoErr)

\* slip: the resolve document also empties the tags
ResolveOpsUntag(c) ==
    <<PatchOp(OpReplace, FieldPath(WorkItemFieldTags), <<>>),
      PatchOp(OpReplace, FieldPath(WorkItemFieldState), c.autoResolve.state)>>

\* slip: the resolve document moves the item to reopenState
ResolveOpsReopen(c) ==
    IF c.autoResolve.state # <<>>
    THEN <<PatchOp(OpReplace, FieldPath(WorkItemFieldState), c.reopenState)>>
    ELSE <<>>

ResolveOps(c) ==
    IF c.autoResolve.state # <<>>
    THEN <<PatchOp(OpReplace, FieldPath(WorkItemFieldState), c.autoResolve.state)>>
    ELSE <<>>

\* resolveWorkItem once findWorkItem has answered
resolveFound(st, c, data, found, failing, remoteFail, order) ==
    LET workItemRef == found.item
        gen == generateWorkItemDocument(c, data, FALSE, failing, order)
        document == gen.doc \o ResolveOps(c)
        id == UpdateTarget(workItemRef)
        u(ok) == Call("update", id, <<>>, <<>>, document, NoWiql, ok, st[id])
    IN IF found.err # NoErr THEN Outcome(st, found.calls, Wrap(found.err, "find work item"))
       ELSE IF workItemRef = NoItem THEN Outcome(st, found.calls, NoErr)
       ELSE IF gen.err # NoErr THEN Outcome(st, found.calls, Wrap(gen.err, "generate resolve document"))
       ELSE IF remoteFail = "update"
       THEN Outcome(st, Append(found.calls, u(FALSE)), Wrap(Str("remote"), "update work item"))
       ELSE Outcome(RemoteUpdateWorkItem(st, id, document), Append(found.calls, u(TRUE)), NoErr)

resolveWorkItem(st, c, data, project, failing, remoteFail, order, first) ==
    resolveFound(st, c, data, findWorkItem(st, data, project, remoteFail, first), failing, remoteFail, order)

\* slip: a batch with a resolved alert is not treated as firing
HasFiringOnly(data) == Len(Firing(data.alerts)) > 0 /\ Len(Resolved(data.alerts)) = 0

\* the `len(data.Alerts.Firing()) > 0` of Notify
HasFiring(data) == Len(Firing(data.alerts)) > 0

\* slip: Notify resolves whether or not auto_resolve is configured
ResolveEnabledAlways(c) == TRUE

\* the `else if r.conf.AutoResolve != nil` branch of Notify
ResolveEnabled(c) == c.autoResolve.set

\* Receiver.Notify: [store, calls, err] after one notification
NotifyOutcome(st, c, data, failing, remoteFail, order, first) ==
    LET proj == Execute("project", c.project, failing)
        project == proj.val
        found == findWorkItem(st, data, project, remoteFail, first)
        upd == updateWorkItem(st, c, data, project, found.item, failing, remoteFail, order)
        cre == createWorkItem(st, c, data, project, failing, remoteFail, order)
    IN IF RenderFailed(proj) THEN Outcome(st, <<>>, Wrap(proj.err, "generate project from template"))
       ELSE IF HasFiring(data)
       THEN IF found.err # NoErr THEN Outcome(st, found.calls, Wrap(found.err, "find work item"))
            ELSE IF found.item # NoItem THEN Outcome(upd.store, found.calls \o upd.calls, upd.err)
            ELSE Outcome(cre.store, found.calls \o cre.calls, cre.err)
       ELSE IF ResolveEnabled(c)
       THEN resolveWorkItem(st, c, data, project, failing, remoteFail, order, first)
       ELSE Outcome(st, <<>>, NoErr)

\* ------------------------------------------------------------------ state
VARIABLES
    conf,      \* the receiver's configuration, fixed once loaded
    store,     \* the remote work items, store[i] has id i
    last,      \* the most recent step: the notification, the calls it issued, its result
    created,   \* number of create calls issued so far
    seen,      \* seen[i]: fingerprints of the batches that updated item i on the Update path
    scen,      \* progress along "f firing; f resolved; f firing" from the empty store
    steps,     \* number of steps taken so far
    reqs,      \* reqs[p]: the /alert request p being served concurrently with the others
    cfg,       \* the configuration file being loaded, and what loading it gave
    built,     \* the most recent call of the document builder or of the field lookup
    http       \* the most recent request served by the /alert handler

vars == <<conf, store, last, created, seen, scen, steps, reqs, cfg, built, http>>

NoData == [alerts |-> <<>>]

NotLoading == [phase |-> "none", file |-> <<>>, receivers |-> <<>>, err |-> <<>>]

NumRequests == 2

Requests == 1..NumRequests

IdleRequest == [pc |-> "idle", data |-> NoData, item |-> NoItem]

\* no document built, no field looked up
NoBuild == [kind |-> "none", data |-> NoData, addFingerprint |-> FALSE, order |-> <<>>,
            doc |-> <<>>, err |-> NoErr, key |-> <<>>, field |-> <<>>, path |-> <<>>]

\* no request served
NoRequest == [phase |-> "idle", decoded |-> FALSE, known |-> FALSE, cred |-> FALSE,
              token |-> FALSE, statuses |-> <<>>, notified |-> FALSE]

NoStep == [kind |-> "none", data |-> NoData, calls |-> <<>>, err |-> NoErr, refs |-> <<>>,
           failing |-> "none", remoteFail |-> "none", repeat |-> FALSE]

ScenOff == [step |-> 4, fp |-> "-"]

Init ==
    /\ conf \in ReceiverConfigs
    /\ store = <<>>
    /\ last = NoStep
    /\ created = 0
    /\ seen = [i \in 1..MaxSteps |-> {}]
    /\ scen = [step |-> 0, fp |-> "-"]
    /\ steps = 0
    /\ reqs = [p \in Requests |-> IdleRequest]
    /\ cfg = NotLoading
    /\ built = NoBuild
    /\ http = NoRequest

CallsNamed(calls, name) == SelectSeq(calls, LAMBDA k : k.name = name)

\* ids the remote may list first for this notification's query
FirstChoices(st, c, data) ==
    LET m == WiqlMatches(st, BuildWiql(data, c.project))
    IN IF m = {} THEN {0} ELSE m

QueryRefs(st, c, data, calls, first) ==
    IF Len(CallsNamed(calls, "query")) > 0 /\ calls[1].ok
    THEN RemoteQueryByWiql(st, BuildWiql(data, c.project), first)
    ELSE <<>>

FingerprintsOf(data) == {data.alerts[i].fingerprint : i \in 1..Len(data.alerts)}

\* the item a successful Update-path update was applied to, 0 if there was none
UpdatePathTarget(data, calls) ==
    LET ups == CallsNamed(calls, "update")
    IN IF Len(Firing(data.alerts)) > 0 /\ Len(ups) > 0 /\ ups[1].ok THEN ups[1].id ELSE 0

ScenNext(sc, st, data, err) ==
    LET one == Len(data.alerts) = 1
        a == data.alerts[1]
    IN IF err # NoErr \/ ~one THEN ScenOff
       ELSE IF sc.step = 0 /\ st = <<>> /\ a.status = AlertFiring THEN [step |-> 1, fp |-> a.fingerprint]
       ELSE IF sc.step = 1 /\ a.fingerprint = sc.fp /\ a.status = AlertResolved THEN [sc EXCEPT !.step = 2]
       ELSE IF sc.step = 2 /\ a.fingerprint = sc.fp /\ a.status = AlertFiring THEN [sc EXCEPT !.step = 3]
       ELSE ScenOff

\* one notification handled by Receiver.Notify, start to finish
NotifyStep(data, failing, remoteFail) ==
    /\ steps < MaxSteps
    /\ \E order \in FieldOrders(conf), first \in FirstChoices(store, conf, data) :
      \E out \in {NotifyOutcome(store, conf, data, failing, remoteFail, order, first)} :
        \E target \in {UpdatePathTarget(data, out.calls)} :
           /\ steps' = steps + 1
           /\ store' = out.store
           /\ last' = [kind |-> "notify", data |-> data, calls |-> out.calls, err |-> out.err,
                       refs |-> QueryRefs(store, conf, data, out.calls, first),
                       failing |-> failing, remoteFail |-> remoteFail,
                       repeat |-> /\ last.kind = "notify" /\ last.data = data
                                  /\ Len(CallsNamed(last.calls, "update")) > 0]
           /\ created' = created + Len(CallsNamed(out.calls, "create"))
           /\ seen' = IF target = 0 THEN seen
                      ELSE [seen EXCEPT ![target] = @ \cup FingerprintsOf(data)]
           /\ scen' = ScenNext(scen, store, data, out.err)
           /\ UNCHANGED <<conf, reqs, cfg, built>>

Notify ==
    /\ steps < MaxSteps
    /\ \E data \in [alerts : Batches] : NotifyStep(data, "none", "none")
    /\ UNCHANGED http

\* a person moves a work item to another state in Azure DevOps
UserSetState ==
    \E i \in 1..Len(store), s \in StateNames :
        /\ steps < MaxSteps
        /\ store[i].state # s
        /\ steps' = steps + 1
        /\ store' = [store EXCEPT ![i].state = s]
        /\ last' = [NoStep EXCEPT !.kind = "user"]
        /\ scen' = ScenOff
        /\ UNCHANGED <<conf, created, seen, reqs, cfg, built, http>>

Next == Notify \/ UserSetState

Spec == Init /\ [][Next]_vars

\* receivers that differ in what the reconciliation reads
ConcurrentConfigs == {c \in ReceiverConfigs : c.fields = {} /\ c.priority = <<>>}

InitConcurrent ==
    /\ conf \in ConcurrentConfigs
    /\ store = <<>>
    /\ last = NoStep
    /\ created = 0
    /\ seen = [i \in 1..MaxSteps |-> {}]
    /\ scen = [step |-> 0, fp |-> "-"]
    /\ steps = 0
    /\ reqs = [p \in Requests |-> IdleRequest]
    /\ cfg = NotLoading
    /\ built = NoBuild
    /\ http = NoRequest

\* the part of Notify up to the answer of findWorkItem, for request p
RequestFind(p) ==
    /\ reqs[p].pc = "idle"
    /\ \E data \in [alerts : Batches] : \E first \in FirstChoices(store, conf, data) :
         LET searches == Len(Firing(data.alerts)) > 0 \/ ResolveEnabled(conf)
             found == findWorkItem(store, data, conf.project, "none", first)
             ends == ~searches \/ found.err # NoErr
                       \/ (Len(Firing(data.alerts)) = 0 /\ found.item = NoItem)
         IN /\ reqs' = [reqs EXCEPT ![p] = [pc |-> IF ends THEN "done" ELSE "found", data |-> data,
                                            item |-> IF searches THEN found.item ELSE NoItem]]
            /\ last' = [NoStep EXCEPT !.kind = "find", !.data = data,
                                      !.calls = IF searches THEN found.calls ELSE <<>>,
                                      !.err = IF searches /\ found.err # NoErr
                                              THEN Wrap(found.err, "find work item") ELSE NoErr]
    /\ UNCHANGED <<conf, store, created, seen, scen, steps, cfg, built, http>>

\* the rest of Notify for request p: create, update or resolve, decided by
\* what its search returned, applied to the store as it is by now
RequestWrite(p) ==
    /\ reqs[p].pc = "found"
    /\ \E order \in FieldOrders(conf) :
         \E out \in {IF Len(Firing(reqs[p].data.alerts)) > 0
                      THEN IF reqs[p].item # NoItem
                           THEN updateWorkItem(store, conf, reqs[p].data, conf.project, reqs[p].item,
                                               "none", "none", order)
                           ELSE createWorkItem(store, conf, reqs[p].data, conf.project, "none", "none", order)
                      ELSE resolveFound(store, conf, reqs[p].data,
                                        [item |-> reqs[p].item, calls |-> <<>>, err |-> NoErr],
                                        "none", "none", order)} :
            /\ store' = out.store
            /\ created' = created + Len(CallsNamed(out.calls, "create"))
            /\ last' = [NoStep EXCEPT !.kind = "write", !.data = reqs[p].data,
                                      !.calls = out.calls, !.err = out.err]
            /\ reqs' = [reqs EXCEPT ![p].pc = "done"]
    /\ UNCHANGED <<conf, seen, scen, steps, cfg, built, http>>

NextConcurrent == \E p \in Requests : RequestFind(p) \/ RequestWrite(p)

SpecConcurrent == InitConcurrent /\ [][NextConcurrent]_vars

OtherProject == Str("OtherProject")

\* receivers that list another project to search
ProjectConfigs ==
    {[c EXCEPT !.otherProjects = <<OtherProject>>] :
        c \in {r \in ReceiverConfigs : /\ r.fields = {} /\ r.priority = <<>>
                                        /\ ~r.updateInComment.set /\ r.skipReopenState = <<>>}}

InitProjects ==
    /\ conf \in ProjectConfigs
    /\ store = <<>>
    /\ last = NoStep
    /\ created = 0
    /\ seen = [i \in 1..MaxSteps |-> {}]
    /\ scen = [step |-> 0, fp |-> "-"]
    /\ steps = 0
    /\ reqs = [p \in Requests |-> IdleRequest]
    /\ cfg = NotLoading
    /\ built = NoBuild
    /\ http = NoRequest

\* a person moves a work item to one of the other projects, or back
UserMoveProject ==
    \E i \in 1..Len(store), k \in 0..Len(conf.otherProjects) :
        \E target \in {IF k = 0 THEN conf.project ELSE conf.otherProjects[k]} :
            /\ steps < MaxSteps
            /\ store[i].project # target
            /\ steps' = steps + 1
            /\ store' = [store EXCEPT ![i].project = target]
            /\ last' = [NoStep EXCEPT !.kind = "user"]
            /\ scen' = ScenOff
            /\ UNCHANGED <<conf, created, seen, reqs, cfg, built, http>>

NextProjects == Notify \/ UserSetState \/ UserMoveProject

SpecProjects == InitProjects /\ [][NextProjects]_vars

\* ---------------------------------------------------- configuration files
MaxDeviations == 1

\* how a configuration file may depart from one in which the receiver sets
\* every required field itself: a required field left to the defaults
\* ("inherit") or set nowhere ("absent"), no receiver name, no template, no
\* receiver at all, an auto_resolve section with or without a state
FileShapes ==
    {sh \in [required : [RequiredFields -> {"own", "inherit", "absent"}],
              name : BOOLEAN, template : BOOLEAN, receivers : {0, 1},
              defaultsResolve : {"unset", "empty", "set"},
              receiverResolve : {"unset", "empty", "set"}] :
        Cardinality({x \in RequiredFields : sh.required[x] # "own"})
          + (IF sh.name THEN 0 ELSE 1) + (IF sh.template THEN 0 ELSE 1) + (1 - sh.receivers)
          + (IF sh.defaultsResolve = "unset" THEN 0 ELSE 1)
          + (IF sh.receiverResolve = "unset" THEN 0 ELSE 1) <= MaxDeviations}

ResolveOf(kind) ==
    [set |-> kind # "unset", state |-> IF kind = "set" THEN StateResolved ELSE <<>>]

\* the file of shape sh whose defaults set the authentication fields ad and
\* whose receiver sets the authentication fields ar
ConfigFile(sh, ad, ar) ==
    LET defaults ==
            [name |-> <<>>,
             f |-> [x \in ConfigFields |->
                      IF x \in AuthFields THEN (IF x \in ad THEN DefaultValue(x) ELSE <<>>)
                      ELSE IF x \in RequiredFields
                      THEN (IF sh.required[x] = "absent" THEN <<>> ELSE DefaultValue(x))
                      ELSE DefaultValue(x)],
             autoResolve |-> ResolveOf(sh.defaultsResolve),
             otherProjects |-> <<OtherProject>>,
             updateInComment |-> [set |-> TRUE, val |-> TRUE]]
        receiver ==
            [name |-> IF sh.name THEN Str("Name") ELSE <<>>,
             f |-> [x \in ConfigFields |->
                      IF x \in AuthFields THEN (IF x \in ar THEN OwnValue(x) ELSE <<>>)
                      ELSE IF x \in RequiredFields
                      THEN (IF sh.required[x] = "own" THEN OwnValue(x) ELSE <<>>)
                      ELSE <<>>],
             autoResolve |-> ResolveOf(sh.receiverResolve),
             otherProjects |-> <<>>,
             updateInComment |-> [set |-> FALSE, val |-> FALSE]]
    IN [defaults |-> defaults,
        receivers |-> IF sh.receivers = 0 THEN <<>> ELSE <<receiver>>,
        template |-> IF sh.template THEN Str("alert-az-do.tmpl") ELSE <<>>]

InitConfig ==
    /\ \E sh \in FileShapes :
          \E ad \in SUBSET AuthFields, ar \in SUBSET AuthFields :
             cfg = [phase |-> "read", file |-> ConfigFile(sh, ad, ar), receivers |-> <<>>, err |-> NoLoadErr]
    /\ conf \in {c \in ProjectConfigs : ~c.autoResolve.set}
    /\ store = <<>>
    /\ last = NoStep
    /\ created = 0
    /\ seen = [i \in 1..MaxSteps |-> {}]
    /\ scen = [step |-> 0, fp |-> "-"]
    /\ steps = 0
    /\ reqs = [p \in Requests |-> IdleRequest]
    /\ built = NoBuild
    /\ http = NoRequest

\* config.Load: the file is unmarshalled, which validates it and fills each
\* receiver from the defaults
Load ==
    /\ cfg.phase = "read"
    /\ \E out \in {UnmarshalYAML(cfg.file)} :
          cfg' = [phase |-> IF out.err = NoLoadErr THEN "loaded" ELSE "failed",
                  file |-> cfg.file, receivers |-> out.receivers, err |-> out.err]
    /\ UNCHANGED <<conf, store, last, created, seen, scen, steps, reqs, built, http>>

SpecConfig == InitConfig /\ [][Load]_vars

\* receivers for which every template is rendered and every remote call can be issued
FaultConfigs ==
    [project : {Str("TestProject")},
     issueType : {Str("Bug")},
     summary : {Str("Test Summary")},
     description : {Str("Test Description")},
     otherProjects : {<<>>},
     reopenState : {StateActive},
     priority : {Str("2")},
     skipReopenState : {StateRemoved},
     fields : {{[key |-> WorkItemFieldAssignedTo, value |-> Str("owner")]}},
     updateInComment : UpdateInCommentChoices \cup {[set |-> TRUE, val |-> FALSE]},
     autoResolve : {[set |-> TRUE, state |-> StateResolved]}]

InitFaults ==
    /\ conf \in FaultConfigs
    /\ store = <<>>
    /\ last = NoStep
    /\ created = 0
    /\ seen = [i \in 1..MaxSteps |-> {}]
    /\ scen = [step |-> 0, fp |-> "-"]
    /\ steps = 0
    /\ reqs = [p \in Requests |-> IdleRequest]
    /\ cfg = NotLoading
    /\ built = NoBuild
    /\ http = NoRequest

\* a notification during which one template fails to render when evaluated, or
\* one kind of remote call fails when issued, or neither
NotifyWithFaults ==
    /\ steps < MaxSteps
    /\ \E data \in [alerts : Batches], failing \in RenderPoints \cup {"none"},
          remoteFail \in RemoteCalls \cup {"none"} :
            (failing = "none" \/ remoteFail = "none") /\ NotifyStep(data, failing, remoteFail)
    /\ UNCHANGED http

NextFaults == NotifyWithFaults \/ UserSetState

SpecFaults == InitFaults /\ [][NextFaults]_vars

InitDocument ==
    /\ conf \in DocumentConfigs
    /\ store = <<>>
    /\ last = NoStep
    /\ created = 0
    /\ seen = [i \in 1..MaxSteps |-> {}]
    /\ scen = [step |-> 0, fp |-> "-"]
    /\ steps = 0
    /\ reqs = [p \in Requests |-> IdleRequest]
    /\ cfg = NotLoading
    /\ built = NoBuild
    /\ http = NoRequest

SpecDocument == InitDocument /\ [][Next]_vars

\* ------------------------------------------- the document builder on its own
CustomTeam == Str("Custom.Team")

\* keys a fields map may hold: reference names, bare or as a JSON patch path,
\* names without a constant, and the empty key
FieldKeys ==
    AllWorkItemFields \cup {FieldPath(f) : f \in AllWorkItemFields}
        \cup {CustomTeam, FieldPath(CustomTeam), <<>>}

FieldValue(key) == <<"value of ">> \o key

FieldEntry(key) == [key |-> key, value |-> FieldValue(key)]

\* fields maps with no entry, one entry, and two entries; among the latter the
\* two spellings of one field and two fields without a common path
BuilderFieldMaps ==
    {{}} \cup {{FieldEntry(k)} : k \in FieldKeys}
         \cup {{FieldEntry(f), FieldEntry(FieldPath(f))} : f \in AllWorkItemFields}
         \cup {{FieldEntry(WorkItemFieldAssignedTo), FieldEntry(CustomTeam)}}

\* receivers that differ in what generateWorkItemDocument reads
BuilderConfigs ==
    [project : {Str("TestProject")},
     issueType : {Str("Bug")},
     summary : {Str("Test Summary")},
     description : {<<>>, Str("Test Description")},
     otherProjects : {<<>>},
     reopenState : {StateActive},
     priority : {<<>>, Str("2")},
     skipReopenState : {<<>>},
     fields : BuilderFieldMaps,
     updateInComment : {[set |-> FALSE, val |-> FALSE]},
     autoResolve : {[set |-> TRUE, state |-> StateResolved]}]

InitBuilder ==
    /\ conf \in BuilderConfigs
    /\ store = <<>>
    /\ last = NoStep
    /\ created = 0
    /\ seen = [i \in 1..MaxSteps |-> {}]
    /\ scen = [step |-> 0, fp |-> "-"]
    /\ steps = 0
    /\ reqs = [p \in Requests |-> IdleRequest]
    /\ cfg = NotLoading
    /\ built = NoBuild
    /\ http = NoRequest

\* one call of generateWorkItemDocument
GenerateDocument ==
    /\ built.kind = "none"
    /\ \E data \in [alerts : Batches], addFingerprint \in BOOLEAN,
          failing \in RenderPoints \cup {"none"}, order \in FieldOrders(conf) :
          \E gen \in {generateWorkItemDocument(conf, data, addFingerprint, failing, order)} :
             /\ built' = [NoBuild EXCEPT !.kind = "document", !.data = data,
                                         !.addFingerprint = addFingerprint, !.order = order,
                                         !.doc = gen.doc, !.err = gen.err]
             /\ UNCHANGED <<conf, store, last, created, seen, scen, steps, reqs, cfg, http>>

\* one call of ParseAzureWorkItemField, and the path the builder gives the key
LookupField ==
    \E key \in FieldKeys :
        /\ built.kind = "none"
        /\ built' = [NoBuild EXCEPT !.kind = "lookup", !.key = key,
                                    !.field = ParseAzureWorkItemField(key),
                                    !.path = FieldPathOfKey(key)]
        /\ UNCHANGED <<conf, store, last, created, seen, scen, steps, reqs, cfg, http>>

NextBuilder == GenerateDocument \/ LookupField

SpecBuilder == InitBuilder /\ [][NextBuilder]_vars

\* ------------------------------------------------------- the /alert handler
StatusOK == 200
StatusBadRequest == 400
StatusNotFound == 404
StatusInternalServerError == 500

\* the name under which the receiver is configured, and a name that is not
ReceiverName == Str("team-alpha")
ReceiverNames == {ReceiverName, Str("nobody")}

\* nil is the empty sequence
ReceiverByName(c, name) == IF name = ReceiverName THEN <<c>> ELSE <<>>

\* writes the status and counts the request under it
errorHandler(statuses, status) == Append(statuses, status)

\* receivers that differ in whether a resolved batch reaches the remote
HandlerConfigs ==
    {c \in ReceiverConfigs : /\ c.fields = {} /\ c.priority = <<>>
                             /\ ~c.updateInComment.set /\ c.skipReopenState = <<>>}

InitHandler ==
    /\ conf \in HandlerConfigs
    /\ store = <<>>
    /\ last = NoStep
    /\ created = 0
    /\ seen = [i \in 1..MaxSteps |-> {}]
    /\ scen = [step |-> 0, fp |-> "-"]
    /\ steps = 0
    /\ reqs = [p \in Requests |-> IdleRequest]
    /\ cfg = NotLoading
    /\ built = NoBuild
    /\ http = NoRequest

\* a request that is answered before a receiver is built
Answered(decoded, known, cred, statuses) ==
    /\ steps' = steps + 1
    /\ http' = [phase |-> "served", decoded |-> decoded, known |-> known, cred |-> cred,
                token |-> FALSE, statuses |-> statuses, notified |-> FALSE]
    /\ last' = [NoStep EXCEPT !.kind = "request"]
    /\ scen' = ScenOff
    /\ UNCHANGED <<conf, store, created, seen, reqs, cfg, built>>

\* one request served by the function AlertHandlerFunc returns, start to
\* finish: whether the body decodes, the receiver it names, whether a credential
\* can be built, whether a token is granted and what the remote does with the
\* calls of Notify are the inputs
AlertHandler ==
    /\ steps < MaxSteps
    /\ \E decoded \in BOOLEAN, name \in ReceiverNames, cred \in BOOLEAN :
          IF ~decoded
          THEN Answered(FALSE, FALSE, FALSE, errorHandler(<<>>, StatusBadRequest))
          ELSE IF ReceiverByName(conf, name) = <<>>
          THEN Answered(TRUE, FALSE, FALSE, errorHandler(<<>>, StatusNotFound))
          ELSE IF ~cred
          THEN Answered(TRUE, TRUE, FALSE, errorHandler(<<>>, StatusInternalServerError))
          ELSE \E token \in BOOLEAN, data \in [alerts : Batches],
                  remoteFail \in RemoteCalls \cup {"none"} :
                  \E afterToken \in {IF token THEN <<>>
                                     ELSE errorHandler(<<>>, StatusInternalServerError)} :
                     /\ NotifyStep(data, "none", remoteFail)
                     /\ http' = [phase |-> "served", decoded |-> TRUE, known |-> TRUE,
                                 cred |-> TRUE, token |-> token, notified |-> TRUE,
                                 statuses |-> IF last'.err # NoErr
                                              THEN errorHandler(afterToken, StatusBadRequest)
                                              ELSE Append(afterToken, StatusOK)]

NextHandler == AlertHandler \/ UserSetState

SpecHandler == InitHandler /\ [][NextHandler]_vars

TypeOK ==
    /\ conf \in ReceiverConfigs \cup DocumentConfigs \cup FaultConfigs \cup ProjectConfigs \cup BuilderConfigs
    /\ Len(store) <= MaxSteps
    /\ \A i \in 1..Len(store) : store[i].id = i /\ store[i].state \in StateNames
    /\ created \in 0..MaxSteps
    /\ steps \in 0..MaxSteps

\* ------------------------------------------------- reading the last step
IsNotify == last.kind = "notify"

LastAlerts == last.data.alerts

LastFiring == Len(Firing(LastAlerts)) > 0

Queries == CallsNamed(last.calls, "query")
Gets == CallsNamed(last.calls, "get")
Creates == CallsNamed(last.calls, "create")
Updates == CallsNamed(last.calls, "update")
Comments == CallsNamed(last.calls, "comment")

\* the search ran and the remote answered it
SearchDone == Len(Queries) = 1 /\ Queries[1].ok

\* the work item findWorkItem handed back, as it was when fetched
LastFound == IF Len(Gets) > 0 /\ Gets[1].ok THEN Gets[1].was ELSE NoItem

OpsOn(doc, field) == SelectSeq(doc, LAMBDA o : o.path = FieldPath(field))

HasFieldFor(c, field) == \E kv \in c.fields : FieldPathOfKey(kv.key) = FieldPath(field)

ResolvedOnly(alerts) ==
    {alerts[i].fingerprint : i \in {j \in 1..Len(alerts) : alerts[j].status = AlertResolved}}
        \ {alerts[i].fingerprint : i \in {j \in 1..Len(alerts) : alerts[j].status = AlertFiring}}

\* ----------------------------------------------------------------- claims

\* C1: a batch with a firing alert whose search finds no work item issues exactly
\* one create call and no update call; the Tags operation the builder adds to the
\* created document is exactly the firing alerts' fingerprint tags joined by "; ",
\* and no Tags operation of the document names an alert that is only resolved.
C1_CreateOnlyFiringFingerprints ==
    (IsNotify /\ LastFiring /\ SearchDone /\ last.refs = <<>>) =>
        /\ Len(Creates) = 1
        /\ Len(Updates) = 0
        /\ LET doc == Creates[1].doc
               tagOps == OpsOn(doc, WorkItemFieldTags)
           IN /\ Len(doc) >= 3
              /\ doc[3] = PatchOp(OpAdd, FieldPath(WorkItemFieldTags),
                                  Join(FiringFingerprints(LastAlerts), TagSeparator))
              /\ \A k \in 1..Len(tagOps) : \A fp \in ResolvedOnly(LastAlerts) :
                    ~Contains(tagOps[k].value, FingerprintTag(fp))
              /\ (~HasFieldFor(conf, WorkItemFieldTags) => Len(tagOps) = 1)

C1_Witness ==
    /\ IsNotify /\ LastFiring /\ SearchDone /\ last.refs = <<>>
    /\ ResolvedOnly(LastAlerts) # {}
    /\ Len(Creates) = 1 /\ Creates[1].ok

\* C2: a batch with a firing alert whose search hands back a work item that is
\* not in skipReopenState issues exactly one update call and no create call, and
\* the update carries a Replace of Tags whose value contains the fingerprint tag
\* of every alert of the batch, firing and resolved.
C2_UpdateCarriesAllFingerprints ==
    (IsNotify /\ LastFiring /\ LastFound # NoItem /\ LastFound.state # conf.skipReopenState) =>
        /\ Len(Updates) = 1
        /\ Len(Creates) = 0
        /\ \E k \in 1..Len(Updates[1].doc) :
              LET o == Updates[1].doc[k]
              IN /\ o.op = OpReplace
                 /\ o.path = FieldPath(WorkItemFieldTags)
                 /\ \A i \in 1..Len(LastAlerts) :
                       Contains(o.value, FingerprintTag(LastAlerts[i].fingerprint))

C2_Witness ==
    /\ IsNotify /\ LastFiring /\ LastFound # NoItem
    /\ LastFound.state # conf.skipReopenState
    /\ Len(Resolved(LastAlerts)) > 0
    /\ Len(Updates) = 1 /\ Updates[1].ok

\* C3: a non-empty batch without a firing alert, with autoResolve configured and
\* a work item found, issues exactly one update call, whose document holds a
\* Replace of State to autoResolve.state, and no create call.
C3_ResolveSetsAutoResolveState ==
    (IsNotify /\ Len(LastAlerts) > 0 /\ ~LastFiring /\ conf.autoResolve.set /\ LastFound # NoItem) =>
        /\ Len(Updates) = 1
        /\ Len(Creates) = 0
        /\ \E k \in 1..Len(Updates[1].doc) :
              Updates[1].doc[k] =
                  PatchOp(OpReplace, FieldPath(WorkItemFieldState), conf.autoResolve.state)

C3_Witness ==
    /\ IsNotify /\ Len(LastAlerts) > 0 /\ ~LastFiring /\ conf.autoResolve.set
    /\ LastFound # NoItem
    /\ Len(Updates) = 1 /\ Updates[1].ok
    /\ store[LastFound.id].state = conf.autoResolve.state

\* C4: on the Update path, a matched work item whose State equals skipReopenState
\* makes Notify return nil without an update, a create or a comment call, and the
\* item stays exactly as it was.
C4_SkipReopenStateNoMutation ==
    (IsNotify /\ LastFiring /\ LastFound # NoItem /\ LastFound.state = conf.skipReopenState) =>
        /\ last.err = NoErr
        /\ Len(Updates) = 0
        /\ Len(Creates) = 0
        /\ Len(Comments) = 0
        /\ store[LastFound.id] = LastFound

C4_Witness ==
    /\ IsNotify /\ LastFiring /\ LastFound # NoItem
    /\ LastFound.state = conf.skipReopenState
    /\ last.err = NoErr

\* C5 (as stated): no update call is ever issued against a work item while its
\* State equals skipReopenState, whatever the notification.
C5_NeverUpdatedInSkipState ==
    IsNotify => \A k \in 1..Len(Updates) : Updates[k].was.state # conf.skipReopenState

\* C5 (amended): a notification with at least one firing alert never issues an
\* update call against a work item whose State equals skipReopenState; only the
\* Resolve path, which makes no such check, updates an item in that state, and
\* it then moves the item to autoResolve.state.
C5_FiringNeverUpdatesSkipState ==
    IsNotify =>
        \A k \in 1..Len(Updates) :
            Updates[k].was.state = conf.skipReopenState =>
                /\ ~LastFiring
                /\ conf.autoResolve.set
                /\ Updates[k].ok => store[Updates[k].id].state = conf.autoResolve.state

C5_Witness ==
    /\ IsNotify /\ LastFiring /\ Len(Resolved(LastAlerts)) > 0
    /\ conf.autoResolve.set
    /\ conf.skipReopenState # conf.autoResolve.state
    /\ LastFound # NoItem /\ LastFound.state = conf.skipReopenState
    /\ Len(Updates) = 0

\* C6: a search that returns two or more work item ids counts as no match: no
\* item is fetched or updated, and a batch with firing alerts creates a work item.
C6_DuplicateMatchIsNoMatch ==
    (IsNotify /\ Len(last.refs) >= 2) =>
        /\ Len(Gets) = 0
        /\ Len(Updates) = 0
        /\ last.err = NoErr
        /\ (LastFiring => Len(Creates) = 1)

\* C7: over any sequence of notifications of one alert group, processed one after
\* another against a store that reflects every earlier call, at most one create
\* call is ever issued.
C7_OneWorkItemPerGroup == created <= 1

C9_TagsRecordEveryAlertSeen ==
    \A i \in 1..Len(store) : \A fp \in seen[i] : Contains(store[i].tags, FingerprintTag(fp))

\* C9 (amended): after a notification takes the Update path against a work item,
\* the item's Tags are exactly the fingerprint tags of that notification's batch
\* joined by "; "; fingerprints that appeared only in earlier batches are dropped.
C9_TagsAreTheLastBatch ==
    (IsNotify /\ UpdatePathTarget(last.data, last.calls) # 0) =>
        store[UpdatePathTarget(last.data, last.calls)].tags =
            Join(Fingerprints(LastAlerts), TagSeparator)

C9_Witness ==
    /\ IsNotify
    /\ UpdatePathTarget(last.data, last.calls) # 0
    /\ \E fp \in seen[UpdatePathTarget(last.data, last.calls)] :
          ~Contains(store[UpdatePathTarget(last.data, last.calls)].tags, FingerprintTag(fp))

\* C10: a non-empty batch without a firing alert never issues a create call and
\* updates only when autoResolve is configured and the search finds a work item:
\* without autoResolve it issues no remote call at all and returns nil, and with
\* autoResolve but no match it issues no update and returns nil.
C10_ResolvedBatchFrame ==
    (IsNotify /\ Len(LastAlerts) > 0 /\ ~LastFiring) =>
        /\ Len(Creates) = 0
        /\ (Len(Updates) > 0 => conf.autoResolve.set /\ LastFound # NoItem)
        /\ (~conf.autoResolve.set => last.calls = <<>> /\ last.err = NoErr)
        /\ (conf.autoResolve.set /\ LastFound = NoItem =>
                Len(Updates) = 0 /\ Len(Comments) = 0 /\ last.err = NoErr)

C10_Witness ==
    /\ IsNotify /\ Len(LastAlerts) > 0 /\ ~LastFiring
    /\ ~conf.autoResolve.set
    /\ Len(store) > 0
    /\ WiqlMatches(store, BuildWiql(last.data, conf.project)) # {}
    /\ last.calls = <<>>

OpSet(doc) == {doc[i] : i \in 1..Len(doc)}

\* the found work item is in neither skipReopenState nor autoResolve.state
PlainState(c, item) ==
    /\ item # NoItem
    /\ item.state # c.skipReopenState
    /\ ~(c.autoResolve.set /\ item.state = c.autoResolve.state)

\* C11: when a batch with a firing alert is processed twice in a row, each time
\* against the same found work item in a state that is neither skipReopenState
\* nor autoResolve.state, both notifications send exactly one update, and the
\* two documents hold the same operations, whatever the order of the
\* custom-field operations.
C11_UpdateIdempotent ==
    [][(/\ IsNotify /\ IsNotify' /\ last'.data = last.data
        /\ LastFiring
        /\ PlainState(conf, LastFound) /\ PlainState(conf, LastFound')
        /\ LastFound'.id = LastFound.id)
       => /\ Len(Updates) = 1 /\ Len(Updates') = 1
          /\ Len(Updates[1].doc) = Len(Updates'[1].doc)
          /\ OpSet(Updates[1].doc) = OpSet(Updates'[1].doc)]_vars

C11_Witness ==
    /\ IsNotify /\ last.repeat /\ LastFiring
    /\ PlainState(conf, LastFound)
    /\ Len(Updates) = 1 /\ Updates[1].ok
    /\ store[LastFound.id].state = StateNew
    /\ Cardinality(conf.fields) = 2

\* the documents the last notification sent
SentDocuments == {Creates[i].doc : i \in 1..Len(Creates)} \cup {Updates[i].doc : i \in 1..Len(Updates)}

\* C12: in every document sent, the Title operation carries the rendered
\* summary itself when the render has at most 128 characters and its first 128
\* characters when it has more.
C12_TitleIsFirst128Characters ==
    IsNotify =>
        \A doc \in SentDocuments :
            doc[1] = PatchOp(OpAdd, FieldPath(WorkItemFieldTitle),
                             IF Len(conf.summary) <= MaxTitleLen THEN conf.summary
                             ELSE SubSeq(conf.summary, 1, MaxTitleLen))

\* requests that are through, had a firing alert and were told "no work item"
NoMatchWriters ==
    {p \in Requests : /\ reqs[p].pc = "done"
                      /\ Len(Firing(reqs[p].data.alerts)) > 0
                      /\ reqs[p].item = NoItem}

\* C13: requests served concurrently are not serialised and a create is not
\* conditional on the store: every request with a firing alert that was told
\* "no work item" creates one, whatever the other requests did in between, so
\* two requests for the same batch that both search before either creates
\* leave two work items with the same fingerprint tags.
C13_EveryNoMatchCreates == created = Cardinality(NoMatchWriters)

C13_Witness ==
    /\ \A p \in {1, 2} : reqs[p].pc = "done" /\ reqs[p].item = NoItem
    /\ reqs[1].data = reqs[2].data
    /\ Len(store) >= 2 /\ created >= 2
    /\ store[1].tags # <<>>
    /\ store[1].tags = store[2].tags

CallNames == [k \in 1..Len(last.calls) |-> last.calls[k].name]

\* C14: a remote call that fails is the last call of its notification, no call
\* of the same kind precedes it, and the notification returns an error.
C14_RemoteFailureEndsNotify ==
    IsNotify =>
        \A k \in 1..Len(last.calls) :
            ~last.calls[k].ok =>
                /\ last.err # NoErr
                /\ k = Len(last.calls)
                /\ \A j \in 1..(k - 1) : last.calls[j].name # last.calls[k].name

C14_Witness ==
    /\ IsNotify
    /\ CallNames = <<"query", "get", "update">>
    /\ ~last.calls[3].ok
    /\ CommentWanted(conf)

\* the last notification went as far as building a work item document
DocumentReached ==
    IF LastFiring
    THEN \/ SearchDone /\ last.refs = <<>>
         \/ LastFound # NoItem /\ LastFound.state # conf.skipReopenState
    ELSE conf.autoResolve.set /\ LastFound # NoItem

\* the template named by last.failing was evaluated by the last notification
RenderReached ==
    CASE last.failing = "project" -> TRUE
      [] last.failing = "issueType" -> LastFiring /\ SearchDone /\ last.refs = <<>>
      [] last.failing \in {"summary", "description"} -> DocumentReached
      [] last.failing = "priority" -> DocumentReached /\ conf.priority # <<>>
      [] last.failing = "field" -> DocumentReached /\ conf.fields # {}
      [] OTHER -> FALSE

\* C15: a notification in which the project, issue type, title, description,
\* priority or custom-field template is evaluated and fails returns an error,
\* issues no create, update or comment call and leaves the remote store as it was.
C15_RenderFailureWritesNothing ==
    [][(IsNotify' /\ RenderReached') =>
          /\ last'.err # NoErr
          /\ Creates' = <<>> /\ Updates' = <<>> /\ Comments' = <<>>
          /\ store' = store]_vars

C15_Witness ==
    /\ IsNotify /\ last.failing = "field" /\ RenderReached
    /\ LastFiring /\ LastFound # NoItem
    /\ last.err # NoErr

\* C16: on the Update path with updateInComment true, a comment is posted exactly
\* when the update call succeeded, and after it; if the comment call fails the
\* notification returns an error while the item keeps the one update applied to
\* it, and if the comment call succeeds the notification returns no error.
C16_CommentFollowsUpdate ==
    (IsNotify /\ LastFiring /\ conf.updateInComment.set /\ conf.updateInComment.val) =>
        /\ Len(Comments) = (IF Len(Updates) = 1 /\ Updates[1].ok THEN 1 ELSE 0)
        /\ Len(Comments) = 1 =>
              /\ CallNames = <<"query", "get", "update", "comment">>
              /\ Comments[1].id = Updates[1].id
              /\ store[Updates[1].id] = ApplyDocument(Updates[1].was, Updates[1].doc)
              /\ Comments[1].ok <=> last.err = NoErr

C16_Witness ==
    /\ IsNotify /\ LastFiring /\ conf.updateInComment.set /\ conf.updateInComment.val
    /\ Len(Comments) = 1 /\ ~Comments[1].ok
    /\ last.err # NoErr
    /\ store[Updates[1].id] # Updates[1].was

\* C20: the remote calls of one notification are, in order, at most one query,
\* at most one get, at most one create or update and at most one comment, each
\* issued only when every call before it succeeded; a get follows a query, an
\* update follows a get, a create follows a query directly, and a comment
\* follows a successful update of a notification with a firing alert whose
\* receiver has updateInComment set to true.
C20_CallsInOrder ==
    IsNotify =>
        /\ CallNames \in {<<>>, <<"query">>, <<"query", "get">>, <<"query", "create">>,
                          <<"query", "get", "update">>, <<"query", "get", "update", "comment">>}
        /\ \A k \in 1..(Len(last.calls) - 1) : last.calls[k].ok
        /\ Len(Comments) > 0 =>
              LastFiring /\ conf.updateInComment.set /\ conf.updateInComment.val

C20_Witness ==
    /\ IsNotify
    /\ CallNames = <<"query", "get", "update", "comment">>
    /\ last.calls[4].ok

\* the work items that existed before the last notification, as they were then
PriorIds == 1..(Len(store) - Len(SelectSeq(Creates, LAMBDA k : k.ok)))

PriorItem(i) ==
    IF \E k \in 1..Len(Updates) : Updates[k].id = i
    THEN Updates[CHOOSE k \in 1..Len(Updates) : Updates[k].id = i].was
    ELSE store[i]

\* C17: when a work item that carries one of the batch's fingerprint tags lives
\* in one of the receiver's other_projects, a notification with a firing alert
\* finds it and creates no new work item.
C17_OtherProjectItemIsFound ==
    (/\ IsNotify /\ LastFiring
     /\ \E i \in PriorIds :
           /\ \E k \in 1..Len(conf.otherProjects) : PriorItem(i).project = conf.otherProjects[k]
           /\ \E k \in 1..Len(LastAlerts) :
                 Contains(PriorItem(i).tags, FingerprintTag(LastAlerts[k].fingerprint)))
    => /\ Len(Creates) = 0
       /\ \E k \in 1..Len(last.refs) : store[last.refs[k]].project # conf.project

FileSections == <<cfg.file.defaults>> \o cfg.file.receivers

\* the section sets the fields of two authentication methods together
MixesMethods(rc) ==
    \/ hasServicePrincipal(rc) /\ hasPAT(rc)
    \/ hasServicePrincipal(rc) /\ rc.f["subscription_id"] # <<>>
    \/ hasManagedIdentity(rc) /\ hasPAT(rc)

\* C18: a configuration file loads only if neither its defaults section nor
\* any receiver sets Service Principal fields together with a personal access
\* token, Service Principal fields together with subscription_id, or Managed
\* Identity fields together with a personal access token.
C18_MixedMethodsNeverLoad ==
    cfg.phase = "loaded" => \A i \in 1..Len(FileSections) : ~MixesMethods(FileSections[i])

\* exactly one complete authentication method, and no field of another one
OneCleanMethod(rc) ==
    LET unset(fs) == \A x \in fs : rc.f[x] = <<>>
    IN \/ hasServicePrincipal(rc) /\ unset({"subscription_id", "personal_access_token"})
       \/ hasManagedIdentity(rc) /\ unset({"tenant_id", "client_secret", "personal_access_token"})
       \/ hasPAT(rc) /\ unset(AuthFields \ {"personal_access_token"})

\* a receiver of the file for which some required value is set nowhere
Unresolvable(rc, d) ==
    \/ rc.name = <<>>
    \/ \E x \in RequiredFields : rc.f[x] = <<>> /\ d.f[x] = <<>>
    \/ AuthMissing(rc, d)

\* every required field of the loaded receiver is the receiver's own value or else the defaults'
RequiredResolved(rc, own, d) ==
    /\ rc.name # <<>>
    /\ \A x \in RequiredFields :
          rc.f[x] # <<>> /\ rc.f[x] = (IF own.f[x] # <<>> THEN own.f[x] ELSE d.f[x])

\* C19: every receiver of a loaded configuration has a name, an organization,
\* a project, an issue type, a summary, a reopen state and a reopen duration,
\* and exactly one complete authentication method with no field of another
\* method set, each value being the receiver's own or else the defaults'; a
\* file with a receiver for which one of these is set nowhere does not load.
C19_LoadedReceiversAreComplete ==
    /\ cfg.phase = "loaded" =>
          \A i \in 1..Len(cfg.receivers) :
              /\ RequiredResolved(cfg.receivers[i], cfg.file.receivers[i], cfg.file.defaults)
              /\ OneCleanMethod(cfg.receivers[i])
              /\ \A x \in AuthFields :
                    cfg.receivers[i].f[x] \in {cfg.file.receivers[i].f[x], cfg.file.defaults.f[x]}
    /\ cfg.phase \in {"loaded", "failed"} =>
          ((\E i \in 1..Len(cfg.file.receivers) :
                Unresolvable(cfg.file.receivers[i], cfg.file.defaults)) => cfg.phase = "failed")

\* the operations of a document that replace State by the receiver's reopenState
ReopenOpsIn(c, doc) ==
    SelectSeq(doc, LAMBDA o : o = PatchOp(OpReplace, FieldPath(WorkItemFieldState), c.reopenState))

\* C21: on the Update path a matched work item in skipReopenState gets no update
\* at all, even when that state is also autoResolve.state; any other matched item
\* gets one update whose document replaces State by reopenState if and only if
\* autoResolve is configured and the item's State equals autoResolve.state, and
\* otherwise, with no State entry in the fields map, has no State operation.
C21_ReopenOnlyFromAutoResolveState ==
    (IsNotify /\ LastFiring /\ LastFound # NoItem) =>
        IF LastFound.state = conf.skipReopenState
        THEN Len(Updates) = 0
        ELSE /\ Len(Updates) = 1
             /\ Len(ReopenOpsIn(conf, Updates[1].doc)) > 0
                    <=> (conf.autoResolve.set /\ LastFound.state = conf.autoResolve.state)
             /\ (/\ ~(conf.autoResolve.set /\ LastFound.state = conf.autoResolve.state)
                 /\ ~HasFieldFor(conf, WorkItemFieldState))
                    => Len(OpsOn(Updates[1].doc, WorkItemFieldState)) = 0

C21_Witness ==
    /\ IsNotify /\ LastFiring
    /\ conf.autoResolve.set
    /\ conf.skipReopenState = StateRemoved
    /\ LastFound.state = conf.autoResolve.state
    /\ Len(Updates) = 1
    /\ Len(ReopenOpsIn(conf, Updates[1].doc)) = 1

\* the tags of a work item, split at the separator
TagsOf(item) ==
    {SubSeq(item.tags, k, k + 1) : k \in {j \in 1..(Len(item.tags) - 1) : item.tags[j] = "Fingerprint:"}}

\* the work item carries the fingerprint tag of one of the alerts
CarriesOneOf(item, alerts) ==
    \E i \in 1..Len(alerts) : FingerprintTag(alerts[i].fingerprint) \in TagsOf(item)

\* C22: the ids a search returns are exactly the work items whose team project
\* is the effective project and whose tags hold the fingerprint tag of at least
\* one alert of the batch, firing or resolved.
C22_SearchMatchesAnyFingerprintInProject ==
    [][(IsNotify' /\ SearchDone') =>
          {last'.refs[k] : k \in 1..Len(last'.refs)} =
              {i \in 1..Len(store) :
                  /\ store[i].project = conf.project
                  /\ CarriesOneOf(store[i], last'.data.alerts)}]_vars

\* a batch whose firing alert is new finds a work item through the fingerprint
\* of its resolved alert
C22_Witness ==
    /\ IsNotify /\ SearchDone
    /\ LastFound # NoItem
    /\ LastFound.project = conf.project
    /\ ~CarriesOneOf(LastFound, Firing(LastAlerts))
    /\ CarriesOneOf(LastFound, Resolved(LastAlerts))

\* the document of the last builder call, when every template rendered
Built == built.kind = "document" /\ built.err = NoErr

TagsAdded == IF built.addFingerprint /\ Len(built.data.alerts) > 0 THEN 1 ELSE 0

PriorityAdded == IF conf.priority # <<>> THEN 1 ELSE 0

\* C23: when all templates render, the document starts with the Title Add and
\* the Description Add (of the description, empty or not), goes on with a Tags
\* Add exactly when addFingerprint is true and the batch has an alert, then a
\* Priority Add exactly when the priority template is non-empty, then one Add
\* per key of the fields map, and holds nothing else.
C23_DocumentShape ==
    Built =>
        LET doc == built.doc
            t == TagsAdded
            p == PriorityAdded
        IN /\ Len(doc) = 2 + t + p + Cardinality(conf.fields)
           /\ \A i \in 1..Len(doc) : doc[i].op = OpAdd
           /\ doc[1].path = FieldPath(WorkItemFieldTitle)
           /\ doc[2].path = FieldPath(WorkItemFieldDescription)
           /\ doc[2].value = conf.description
           /\ t = 1 => doc[3].path = FieldPath(WorkItemFieldTags)
           /\ p = 1 => doc[3 + t].path = FieldPath(WorkItemFieldPriority)
           /\ \A kv \in conf.fields :
                 Cardinality({i \in (3 + t + p)..Len(doc) : doc[i].value = kv.value}) = 1

\* an empty batch built with addFingerprint, an empty description, a priority
\* and two custom fields
C23_Witness ==
    /\ Built
    /\ built.addFingerprint /\ Len(built.data.alerts) = 0
    /\ conf.description = <<>>
    /\ conf.priority # <<>>
    /\ Cardinality(conf.fields) = 2
    /\ Len(built.doc) = 5

\* the known fields a key names, bare or as a JSON patch path
NamedBy(key) == {f \in AllWorkItemFields : key = f \/ key = <<"/fields/">> \o f}

\* C24: a key that is a known field name, bare or prefixed with "/fields/", is
\* looked up to that field either way and gets the path "/fields/<name>"; any
\* other key is looked up to nothing and gets "/fields/" followed by the key as
\* it is, which for the empty key is "/fields/".
C24_FieldPathOfEveryKey ==
    built.kind = "lookup" =>
        /\ \A f \in NamedBy(built.key) :
              built.field = <<f>> /\ built.path = <<"/fields/">> \o f
        /\ NamedBy(built.key) = {} =>
              built.field = <<>> /\ built.path = <<"/fields/">> \o built.key
        /\ built.key = <<>> => built.path = <<"/fields/">>

\* a known field given by its path is looked up to the field and keeps its path
C24_Witness ==
    /\ built.kind = "lookup"
    /\ built.key = <<"/fields/", "System.Tags">>
    /\ built.field = <<WorkItemFieldTags>>
    /\ built.path = built.key

\* C25: with no Tags entry in the fields map, the document of a Resolve-path
\* update has no Tags operation; the resolved work item keeps the tags it had
\* and is matched again by a search for the fingerprints of the batch.
C25_ResolveKeepsTags ==
    (/\ IsNotify /\ ~LastFiring
     /\ Len(Updates) = 1 /\ Updates[1].ok
     /\ ~HasFieldFor(conf, WorkItemFieldTags)) =>
        /\ Len(OpsOn(Updates[1].doc, WorkItemFieldTags)) = 0
        /\ store[Updates[1].id].tags = Updates[1].was.tags
        /\ Updates[1].id \in WiqlMatches(store, BuildWiql(last.data, conf.project))

C25_Witness ==
    /\ IsNotify /\ ~LastFiring
    /\ Len(Updates) = 1 /\ Updates[1].ok
    /\ ~HasFieldFor(conf, WorkItemFieldTags)
    /\ store[Updates[1].id].state = conf.autoResolve.state
    /\ Updates[1].was.state # conf.autoResolve.state
    /\ TagsOf(store[Updates[1].id]) # {}

\* C26: every update call of a notification, on the Update path and on the
\* Resolve path, is addressed to the work item its own search returned, and
\* the notification leaves every other work item of the store as it was.
C26_UpdatesOnlyTheFoundItem ==
    [][IsNotify' =>
          /\ \A k \in 1..Len(CallsNamed(last'.calls, "update")) :
                LET u == CallsNamed(last'.calls, "update")[k]
                    gets == CallsNamed(last'.calls, "get")
                IN /\ Len(gets) = 1 /\ gets[1].ok
                   /\ Len(last'.refs) > 0
                   /\ u.id = last'.refs[1]
                   /\ u.id = gets[1].id
                   /\ u.id = gets[1].was.id
          /\ \A i \in 1..Len(store) :
                (\A k \in 1..Len(CallsNamed(last'.calls, "update")) :
                     CallsNamed(last'.calls, "update")[k].id # i) => store'[i] = store[i]]_vars

\* an update, on either path, while the store holds another work item
C26_Witness ==
    /\ IsNotify
    /\ Len(Updates) = 1 /\ Updates[1].ok
    /\ Len(store) > 1
    /\ Updates[1].id = 2

\* the work item carries the fingerprint tag of every one of the alerts
CarriesAllOf(item, alerts) ==
    \A i \in 1..Len(alerts) : FingerprintTag(alerts[i].fingerprint) \in TagsOf(item)

\* C27: after a notification with a firing alert that returned nil, whose
\* matched work item, if there was one, was not in skipReopenState, and with no
\* Tags entry in the fields map, some work item of the effective project
\* carries the fingerprint tag of every firing alert of the batch.
C27_FiringAlertsAreTracked ==
    (/\ IsNotify /\ last.err = NoErr /\ LastFiring
     /\ (LastFound = NoItem \/ LastFound.state # conf.skipReopenState)
     /\ ~HasFieldFor(conf, WorkItemFieldTags)) =>
        \E i \in 1..Len(store) :
            /\ store[i].project = conf.project
            /\ CarriesAllOf(store[i], Firing(LastAlerts))

\* two firing alerts, one of them new to the work item that was matched
C27_Witness ==
    /\ IsNotify /\ last.err = NoErr
    /\ Len(Firing(LastAlerts)) = 2
    /\ LastFound # NoItem /\ LastFound.state # conf.skipReopenState
    /\ ~CarriesAllOf(LastFound, Firing(LastAlerts))
    /\ ~HasFieldFor(conf, WorkItemFieldTags)
    /\ CarriesAllOf(store[LastFound.id], Firing(LastAlerts))

\* the calls of the last step whose document sets State to the value
StateWrites(value) ==
    {k \in 1..Len(last.calls) :
        Len(SelectSeq(OpsOn(last.calls[k].doc, WorkItemFieldState), LAMBDA o : o.value = value)) > 0}

\* C28: with reopenState different from autoResolve.state and no State entry
\* in the fields map, no call of a notification that has a firing alert sets
\* State to autoResolve.state, whatever else the batch holds.
C28_FiringBatchNeverResolves ==
    (/\ IsNotify /\ LastFiring
     /\ conf.autoResolve.set
     /\ conf.reopenState # conf.autoResolve.state
     /\ ~HasFieldFor(conf, WorkItemFieldState)) =>
        StateWrites(conf.autoResolve.state) = {}

\* a firing and a resolved alert in one batch, autoResolve configured, and a
\* matched work item that is updated
C28_Witness ==
    /\ IsNotify /\ LastFiring
    /\ Len(Resolved(LastAlerts)) > 0
    /\ conf.autoResolve.set
    /\ Len(Updates) = 1 /\ Updates[1].ok
    /\ store[Updates[1].id].state # conf.autoResolve.state

\* no two operations of the document have the same path
DistinctPaths(doc) == \A i, j \in 1..Len(doc) : i # j => doc[i].path # doc[j].path

\* C29: in every document sent with a create or an update call no two
\* operations target the same field path, whatever the fields map names and
\* whatever the state of the matched work item.
C29_OneOperationPerPath ==
    IsNotify => \A doc \in SentDocuments : DistinctPaths(doc)

\* C30: every request served has exactly one outcome; a body that does not
\* decode gives 400 and an unknown receiver 404, neither with a work-item call;
\* a token that cannot be acquired gives 500 once, and then no receiver is
\* built, Notify is not called and no work-item call is issued.
C30_OneOutcomePerRequest ==
    http.phase = "served" =>
        /\ Len(http.statuses) = 1
        /\ ~http.decoded => http.statuses = <<StatusBadRequest>> /\ last.calls = <<>>
        /\ (http.decoded /\ ~http.known) => http.statuses = <<StatusNotFound>> /\ last.calls = <<>>
        /\ (http.cred /\ ~http.token) =>
              /\ http.statuses = <<StatusInternalServerError>>
              /\ ~http.notified
              /\ last.calls = <<>>
====
